---- MODULE Spec2Model ----
(***************************************************************************)
(* A model of the chess engine of src/main.py: the ChessBoard class (the   *)
(* 8x8 grid, current_turn, move_piece, is_valid_move and the per-piece     *)
(* validators) and the part of ChessGame that drives it (handle_click,     *)
(* computer_move, check_game_state).                                       *)
(*                                                                         *)
(* A Piece object is modelled by its value [piece_type, color, has_moved]. *)
(* Piece.position is written by set_piece and read nowhere, so it is left  *)
(* out.  A grid cell holds the only reference to its Piece (move_piece     *)
(* always clears the cell a piece leaves before it fills another), so the  *)
(* in-place updates of has_moved and piece_type are updates of that cell.  *)
(*                                                                         *)
(* An uncaught Python exception ends the run: the state in which it was    *)
(* raised is kept (exit names the exception) and no operation follows.     *)
(* The same holds for a call that would not return (exit is "loops").      *)
(***************************************************************************)
EXTENDS Integers, Sequences, FiniteSets, TLC

VARIABLES
    board,           \* ChessBoard.board: the grid, a function from squares to cells
    current_turn,    \* ChessBoard.current_turn
    selected_piece,  \* ChessGame.selected_piece: a square, or NoSquare for None
    game_over,       \* ChessGame.game_over
    message,         \* ChessGame.message
    exit,            \* how the last call ended: "init", the line of its return, or the exception
    pre,             \* history: board and current_turn when the last call was entered
    args,            \* history: from/to of the last move_piece or is_valid_move call, NoCall where not recorded
    movers,          \* history: the colour of the piece moved by each accepted move, in order
    pos,             \* how many calls of the recorded game Game have been replayed
    free             \* how many calls with freely chosen squares have been made

vars == <<board, current_turn, selected_piece, game_over, message, exit, pre, args, movers, pos, free>>

(***************************************************************************)
(* Bounds of the exploration.                                              *)
(***************************************************************************)
\* Calls with freely chosen squares that may follow the replayed prefix of Game.
MaxFree == 1
\* How far outside 0..7 a freely chosen coordinate may lie.
Off == 1

(***************************************************************************)
(* PieceType, PieceColor, Piece (lines 7-41).                              *)
(***************************************************************************)
KING == "KING"
QUEEN == "QUEEN"
ROOK == "ROOK"
BISHOP == "BISHOP"
KNIGHT == "KNIGHT"
PAWN == "PAWN"
PieceType == {KING, QUEEN, ROOK, BISHOP, KNIGHT, PAWN}

WHITE == "WHITE"
BLACK == "BLACK"
PieceColor == {WHITE, BLACK}

\* Python's None in a grid cell (a record, so that cells compare with each other).
None == [piece_type |-> "None", color |-> "None", has_moved |-> FALSE]

\* Piece.__init__: has_moved starts False.
Piece(piece_type, color) == [piece_type |-> piece_type, color |-> color, has_moved |-> FALSE]

Abs(x) == IF x < 0 THEN 0 - x ELSE x

Min(x, y) == IF x < y THEN x ELSE y

Max(x, y) == IF x < y THEN y ELSE x

\* The indices of one axis of the grid, and the squares.
Rows == 0 .. 7
Sq == Rows \X Rows

\* None for ChessGame.selected_piece (a square is a pair, so None is one too).
NoSquare == <<-9, -9>>

\* No recorded call.
NoCall == [from |-> NoSquare, to |-> NoSquare]

(***************************************************************************)
(* ChessBoard.__init__ / initialize_board (lines 46-64).                   *)
(***************************************************************************)
\* back_row with king and queen on each other's column.
back_row_king_first == <<ROOK, KNIGHT, BISHOP, KING, QUEEN, BISHOP, KNIGHT, ROOK>>

back_row == <<ROOK, KNIGHT, BISHOP, QUEEN, KING, BISHOP, KNIGHT, ROOK>>

\* initialize_board with a black rook on White's corner (7,7).
initialize_board_foreign_rook ==
    [s \in Sq |->
        IF s = <<7, 7>> THEN Piece(ROOK, BLACK)
        ELSE IF s[1] = 0 THEN Piece(back_row[s[2] + 1], BLACK)
        ELSE IF s[1] = 7 THEN Piece(back_row[s[2] + 1], WHITE)
        ELSE IF s[1] = 1 THEN Piece(PAWN, BLACK)
        ELSE IF s[1] = 6 THEN Piece(PAWN, WHITE)
        ELSE None]

initialize_board ==
    [s \in Sq |->
        IF s[1] = 0 THEN Piece(back_row[s[2] + 1], BLACK)
        ELSE IF s[1] = 7 THEN Piece(back_row[s[2] + 1], WHITE)
        ELSE IF s[1] = 1 THEN Piece(PAWN, BLACK)
        ELSE IF s[1] = 6 THEN Piece(PAWN, WHITE)
        ELSE None]

(***************************************************************************)
(* get_piece / set_piece (lines 66-76).                                    *)
(***************************************************************************)
\* get_piece bounds-checks and answers None outside the grid.
get_piece(b, row, col) ==
    IF 0 <= row /\ row < 8 /\ 0 <= col /\ col < 8 THEN b[<<row, col>>] ELSE None

\* A Python list of 8 items takes the indices -8..7; any other raises IndexError.
IndexOk(i) == -8 <= i /\ i < 8

\* A negative list index counts from the end.
Index(i) == IF i < 0 THEN i + 8 ELSE i

\* set_piece does not bounds-check: self.board[row][col] = piece raises IndexError
\* for an index outside -8..7 and writes the wrapped cell for a negative one.
set_piece_raises(row, col) == ~(IndexOk(row) /\ IndexOk(col))

set_piece(b, row, col, piece) == [b EXCEPT ![<<Index(row), Index(col)>>] = piece]

(***************************************************************************)
(* The validators (lines 137-224).                                         *)
(***************************************************************************)
\* _validate_pawn whose double step does not look at the square it passes over.
_validate_pawn_jumps(b, from_pos, to_pos) ==
    LET from_row == from_pos[1]
        from_col == from_pos[2]
        to_row == to_pos[1]
        to_col == to_pos[2]
        piece == get_piece(b, from_row, from_col)
        direction == IF piece.color = WHITE THEN -1 ELSE 1
    IN  IF from_col = to_col /\ to_row = from_row + direction
        THEN get_piece(b, to_row, to_col) = None
        ELSE IF from_col = to_col
                /\ (\/ piece.color = WHITE /\ from_row = 6 /\ to_row = 4
                    \/ piece.color = BLACK /\ from_row = 1 /\ to_row = 3)
        THEN get_piece(b, to_row, to_col) = None
        ELSE IF Abs(to_col - from_col) = 1 /\ to_row = from_row + direction
        THEN LET target == get_piece(b, to_row, to_col)
             IN  target # None /\ target.color # piece.color
        ELSE FALSE

_validate_pawn(b, from_pos, to_pos) ==
    LET from_row == from_pos[1]
        from_col == from_pos[2]
        to_row == to_pos[1]
        to_col == to_pos[2]
        piece == get_piece(b, from_row, from_col)
        direction == IF piece.color = WHITE THEN -1 ELSE 1
    IN  IF from_col = to_col /\ to_row = from_row + direction
        THEN get_piece(b, to_row, to_col) = None
        ELSE IF from_col = to_col
                /\ (\/ piece.color = WHITE /\ from_row = 6 /\ to_row = 4
                    \/ piece.color = BLACK /\ from_row = 1 /\ to_row = 3)
        THEN /\ get_piece(b, from_row + direction, from_col) = None
             /\ get_piece(b, to_row, to_col) = None
        ELSE IF Abs(to_col - from_col) = 1 /\ to_row = from_row + direction
        THEN LET target == get_piece(b, to_row, to_col)
             IN  target # None /\ target.color # piece.color
        ELSE FALSE

_validate_knight(from_pos, to_pos) ==
    LET dr == Abs(to_pos[1] - from_pos[1])
        dc == Abs(to_pos[2] - from_pos[2])
    IN  <<dr, dc>> \in {<<2, 1>>, <<1, 2>>}

\* The while loop of _validate_bishop (lines 176-180), one iteration per unfolding:
\* "hit" when (r, c) is the destination, "blocked" at an occupied square. A walk that
\* has left the grid by more than 8 can no longer meet a destination the callers
\* pass, and the Python loop would run on for ever: "loops".
RECURSIVE bishop_walk(_, _, _, _, _, _, _)
bishop_walk(b, r, c, tr, tc, row_step, col_step) ==
    IF <<r, c>> = <<tr, tc>> THEN "hit"
    ELSE IF get_piece(b, r, c) # None THEN "blocked"
    ELSE IF r < -16 \/ r > 23 THEN "loops"
    ELSE bishop_walk(b, r + row_step, c + col_step, tr, tc, row_step, col_step)

\* The squares the same loop looks at before it returns, the destination included.
RECURSIVE bishop_walk_len(_, _, _, _, _, _, _)
bishop_walk_len(b, r, c, tr, tc, row_step, col_step) ==
    IF <<r, c>> = <<tr, tc>> THEN 1
    ELSE IF get_piece(b, r, c) # None THEN 1
    ELSE IF r < -16 \/ r > 23 THEN 1
    ELSE 1 + bishop_walk_len(b, r + row_step, c + col_step, tr, tc, row_step, col_step)

\* _validate_bishop without the walk: any diagonal destination will do.
_validate_bishop_jumps(b, from_pos, to_pos) ==
    Abs(to_pos[1] - from_pos[1]) = Abs(to_pos[2] - from_pos[2])

_validate_bishop(b, from_pos, to_pos) ==
    LET fr == from_pos[1]
        fc == from_pos[2]
        tr == to_pos[1]
        tc == to_pos[2]
        row_step == IF tr > fr THEN 1 ELSE -1
        col_step == IF tc > fc THEN 1 ELSE -1
    IN  IF Abs(tr - fr) # Abs(tc - fc) THEN FALSE
        ELSE bishop_walk(b, fr + row_step, fc + col_step, tr, tc, row_step, col_step) = "hit"

_validate_rook(b, from_pos, to_pos) ==
    LET fr == from_pos[1]
        fc == from_pos[2]
        tr == to_pos[1]
        tc == to_pos[2]
    IN  IF fr # tr /\ fc # tc THEN FALSE
        ELSE IF fr = tr
        THEN \A c \in (Min(fc, tc) + 1) .. (Max(fc, tc) - 1) : get_piece(b, fr, c) = None
        ELSE \A r \in (Min(fr, tr) + 1) .. (Max(fr, tr) - 1) : get_piece(b, r, fc) = None

_validate_queen(b, from_pos, to_pos) ==
    _validate_bishop(b, from_pos, to_pos) \/ _validate_rook(b, from_pos, to_pos)

\* _validate_king that castles without looking at the squares between king and rook.
_validate_king_jumps(b, from_pos, to_pos) ==
    LET fr == from_pos[1]
        fc == from_pos[2]
        tr == to_pos[1]
        tc == to_pos[2]
        piece == get_piece(b, fr, fc)
        rook_col == IF tc < fc THEN 0 ELSE 7
        rook == get_piece(b, fr, rook_col)
    IN  IF Abs(tr - fr) <= 1 /\ Abs(tc - fc) <= 1 THEN TRUE
        ELSE IF ~piece.has_moved /\ fr = tr /\ Abs(tc - fc) = 2
        THEN ~(rook = None \/ rook.piece_type # ROOK \/ rook.has_moved)
        ELSE FALSE

_validate_king(b, from_pos, to_pos) ==
    LET fr == from_pos[1]
        fc == from_pos[2]
        tr == to_pos[1]
        tc == to_pos[2]
        piece == get_piece(b, fr, fc)
        rook_col == IF tc < fc THEN 0 ELSE 7
        rook == get_piece(b, fr, rook_col)
    IN  IF Abs(tr - fr) <= 1 /\ Abs(tc - fc) <= 1 THEN TRUE
        ELSE IF ~piece.has_moved /\ fr = tr /\ Abs(tc - fc) = 2
        THEN IF rook = None \/ rook.piece_type # ROOK \/ rook.has_moved THEN FALSE
             ELSE \A c \in (Min(fc, rook_col) + 1) .. (Max(fc, rook_col) - 1) :
                     get_piece(b, fr, c) = None
        ELSE FALSE

(***************************************************************************)
(* is_valid_move (lines 113-135).  It reads the grid only: current_turn is *)
(* not among the things it looks at.                                       *)
(***************************************************************************)
is_valid_move(b, from_pos, to_pos) ==
    LET piece == get_piece(b, from_pos[1], from_pos[2])
        target == get_piece(b, to_pos[1], to_pos[2])
    IN  IF piece = None THEN FALSE
        ELSE IF target # None /\ target.color = piece.color THEN FALSE
        ELSE IF piece.piece_type = PAWN THEN _validate_pawn(b, from_pos, to_pos)
        ELSE IF piece.piece_type = KNIGHT THEN _validate_knight(from_pos, to_pos)
        ELSE IF piece.piece_type = BISHOP THEN _validate_bishop(b, from_pos, to_pos)
        ELSE IF piece.piece_type = ROOK THEN _validate_rook(b, from_pos, to_pos)
        ELSE IF piece.piece_type = QUEEN THEN _validate_queen(b, from_pos, to_pos)
        ELSE IF piece.piece_type = KING THEN _validate_king(b, from_pos, to_pos)
        ELSE FALSE

\* enters_walk without the test of lines 120-121.
enters_walk_same_side(b, from_pos, to_pos) ==
    LET piece == get_piece(b, from_pos[1], from_pos[2])
    IN  /\ piece # None
        /\ piece.piece_type \in {BISHOP, QUEEN}
        /\ Abs(to_pos[1] - from_pos[1]) = Abs(to_pos[2] - from_pos[2])

\* is_valid_move(from_pos, to_pos) gets as far as the while loop of line 176: it
\* passes lines 118-121, dispatches to _validate_bishop (directly or through
\* _validate_queen) and passes line 171.
enters_walk(b, from_pos, to_pos) ==
    LET piece == get_piece(b, from_pos[1], from_pos[2])
        target == get_piece(b, to_pos[1], to_pos[2])
    IN  /\ piece # None
        /\ ~(target # None /\ target.color = piece.color)
        /\ piece.piece_type \in {BISHOP, QUEEN}
        /\ Abs(to_pos[1] - from_pos[1]) = Abs(to_pos[2] - from_pos[2])

\* Lines 173-175: where the walk starts and how it steps.
walk_start(from_pos, to_pos) ==
    LET row_step == IF to_pos[1] > from_pos[1] THEN 1 ELSE -1
        col_step == IF to_pos[2] > from_pos[2] THEN 1 ELSE -1
    IN  [r |-> from_pos[1] + row_step, c |-> from_pos[2] + col_step,
         row_step |-> row_step, col_step |-> col_step]

\* How the call is_valid_move(from_pos, to_pos) ends: with True, with False, or
\* not at all ("loops").
is_valid_move_result(b, from_pos, to_pos) ==
    LET w == walk_start(from_pos, to_pos)
    IN  IF /\ enters_walk(b, from_pos, to_pos)
           /\ bishop_walk(b, w.r, w.c, to_pos[1], to_pos[2], w.row_step, w.col_step) = "loops"
        THEN "loops"
        ELSE IF is_valid_move(b, from_pos, to_pos) THEN "True" ELSE "False"

\* is_valid_move that marks the piece it looks at as moved.
is_valid_move_marks_piece(b, from_pos, to_pos) ==
    IF from_pos \in Sq /\ b[from_pos] # None /\ is_valid_move(b, from_pos, to_pos)
    THEN [b EXCEPT ![from_pos].has_moved = TRUE]
    ELSE b

\* The grid is_valid_move leaves. Lines 113-224 assign to local names only
\* (piece, target, direction, dr, dc, r, c, rook_col, rook, ...): no cell of
\* self.board, no attribute of a Piece and not self.current_turn.
is_valid_move_effect(b, from_pos, to_pos) == b

\* How a call ends that looks up a name its object does not have.
NoAttribute(name) == "AttributeError: " \o name

(***************************************************************************)
(* move_piece (lines 78-111), in the order of its statements.              *)
(***************************************************************************)
\* move_guard without the turn check of lines 86-87.
move_guard_any_side(b, turn, from_pos, to_pos) ==
    LET piece == get_piece(b, from_pos[1], from_pos[2])
    IN  IF piece = None THEN "L85"
        ELSE IF ~is_valid_move(b, from_pos, to_pos) THEN "L89"
        ELSE "pass"

\* Lines 82-89: the three early returns, by the line that returns False; "pass"
\* when the call goes on to change the grid.
move_guard(b, turn, from_pos, to_pos) ==
    LET piece == get_piece(b, from_pos[1], from_pos[2])
    IN  IF piece = None THEN "L85"
        ELSE IF piece.color # turn THEN "L87"
        ELSE IF ~is_valid_move(b, from_pos, to_pos) THEN "L89"
        ELSE "pass"

\* Line 92: the test that makes a move a castling move.
is_castling(piece, from_col, to_col) ==
    piece.piece_type = KING /\ Abs(from_col - to_col) = 2

\* Lines 93-94.
castle_rook_col(to_col) == IF to_col = 2 THEN 0 ELSE 7

\* castle_rook_target_col with the two wings exchanged.
castle_rook_target_col_swapped(to_col) == IF to_col = 2 THEN 5 ELSE 3

castle_rook_target_col(to_col) == IF to_col = 2 THEN 3 ELSE 5

\* castle_rook without line 98: the rook is not marked as moved.
castle_rook_unmarked(b, from_row, to_col) ==
    LET rook_col == castle_rook_col(to_col)
        rook_target_col == castle_rook_target_col(to_col)
        rook == get_piece(b, from_row, rook_col)
    IN  set_piece(set_piece(b, from_row, rook_col, None), from_row, rook_target_col, rook)

\* Lines 95-98: the rook leaves its corner for the square beside the king's
\* destination and is marked as moved. (With no piece on the corner, line 98
\* raises AttributeError after lines 96-97 have run.)
castle_rook(b, from_row, to_col) ==
    LET rook_col == castle_rook_col(to_col)
        rook_target_col == castle_rook_target_col(to_col)
        rook == get_piece(b, from_row, rook_col)
    IN  set_piece(set_piece(b, from_row, rook_col, None), from_row, rook_target_col,
                  IF rook = None THEN None ELSE [rook EXCEPT !.has_moved = TRUE])

\* promote for White's last rank only.
promote_row0_only(piece, to_row) ==
    IF piece.piece_type = PAWN /\ to_row = 0
    THEN [piece EXCEPT !.piece_type = QUEEN]
    ELSE piece

\* Lines 105-107: a pawn that lands on row 0 or 7 becomes a queen.
promote(piece, to_row) ==
    IF piece.piece_type = PAWN /\ (to_row = 0 \/ to_row = 7)
    THEN [piece EXCEPT !.piece_type = QUEEN]
    ELSE piece

\* execute_move without line 101: the origin keeps the piece.
execute_move_keeps_origin(b, from_pos, to_pos, piece) ==
    set_piece(b, to_pos[1], to_pos[2],
              [piece EXCEPT !.has_moved = TRUE])

\* execute_move without line 103: the piece is not marked as moved.
execute_move_unmarked(b, from_pos, to_pos, piece) ==
    set_piece(set_piece(b, from_pos[1], from_pos[2], None), to_pos[1], to_pos[2],
              promote(piece, to_pos[1]))

\* Lines 101-107: the origin is cleared, the piece is put on the destination,
\* marked as moved and promoted.
execute_move(b, from_pos, to_pos, piece) ==
    set_piece(set_piece(b, from_pos[1], from_pos[2], None), to_pos[1], to_pos[2],
              promote([piece EXCEPT !.has_moved = TRUE], to_pos[1]))

\* switch_turn that leaves the turn where it is.
switch_turn_stuck(turn) == turn

\* Line 110.
switch_turn(turn) == IF turn = WHITE THEN BLACK ELSE WHITE

\* The call as a whole: the grid and turn it leaves, and how it ended ("L85",
\* "L87", "L89": returned False there; "L111": returned True; or the exception).
move_piece(b, turn, from_pos, to_pos) ==
    LET from_row == from_pos[1]
        from_col == from_pos[2]
        to_row == to_pos[1]
        to_col == to_pos[2]
        piece == get_piece(b, from_row, from_col)
        guard == move_guard(b, turn, from_pos, to_pos)
        castling == is_castling(piece, from_col, to_col)
        b1 == IF castling THEN castle_rook(b, from_row, to_col) ELSE b
    IN  IF guard # "pass"
        THEN [board |-> b, current_turn |-> turn, exit |-> guard]
        ELSE IF castling /\ get_piece(b, from_row, castle_rook_col(to_col)) = None
        THEN [board |-> b1, current_turn |-> turn, exit |-> NoAttribute("has_moved")]
        ELSE IF set_piece_raises(to_row, to_col)
        THEN [board |-> set_piece(b1, from_row, from_col, None),
              current_turn |-> turn, exit |-> "IndexError"]
        ELSE [board |-> execute_move(b1, from_pos, to_pos, piece),
              current_turn |-> switch_turn(turn), exit |-> "L111"]

(***************************************************************************)
(* ChessGame (lines 227-347).                                              *)
(***************************************************************************)
\* Lines 231-232.
screen_size == 640

square_size == screen_size \div 8

\* Line 243.
computer_player == BLACK

\* Everything an instance of ChessBoard has: the attributes __init__ sets and the
\* methods of the class body (lines 44-224). A name outside it raises
\* AttributeError when it is looked up on self.board.
ChessBoard_attrs ==
    {"board", "current_turn", "__init__", "initialize_board", "get_piece", "set_piece",
     "move_piece", "is_valid_move", "_validate_pawn", "_validate_knight",
     "_validate_bishop", "_validate_rook", "_validate_queen", "_validate_king"}

\* check_game_state (lines 339-347) evaluates self.board.is_checkmate() first.
check_game_state_exit ==
    IF "is_checkmate" \in ChessBoard_attrs /\ "is_stalemate" \in ChessBoard_attrs
    THEN "L347"
    ELSE IF "is_checkmate" \notin ChessBoard_attrs THEN NoAttribute("is_checkmate")
    ELSE NoAttribute("is_stalemate")

\* computer_move (lines 331-337) evaluates self.board.get_all_valid_moves(...) first.
computer_move_exit ==
    IF "get_all_valid_moves" \in ChessBoard_attrs THEN "L337"
    ELSE NoAttribute("get_all_valid_moves")

(***************************************************************************)
(* The recorded session that is replayed: move_piece calls as (from, to)   *)
(* pairs of (row, col); row 7 is White's back rank. Three calls that are   *)
(* refused (an empty square, a black pawn on White's turn, a rook moved    *)
(* diagonally), then the game 1.f3 e5 2.g4 Qh4 (fool's mate) 3.Nh3 Nf6    *)
(* 4.Bg2 Bc5 5.Nc3 Nc6 6.d3 d6 7.Bg5 Be6 8.Qd2 O-O-O 9.O-O-O h5 10.a4 hxg4 *)
(* 11.a5 gxf3 12.a6 fxe2 13.axb7 e1=Q 14.bxc8=Q (the black king) Qxd1      *)
(* 15.Qxd8 Qxc1 (the white king) 16.Qa8 Nd4 17.Bf1 Qg4 18.Rg1, which leaves *)
(* the diagonal from (0,0) to (7,7) empty behind the white queen.          *)
(***************************************************************************)
Game ==
    << <<<<4, 4>>, <<3, 4>>>>, <<<<1, 4>>, <<3, 4>>>>, <<<<7, 0>>, <<5, 2>>>>,
       <<<<6, 5>>, <<5, 5>>>>, <<<<1, 4>>, <<3, 4>>>>, <<<<6, 6>>, <<4, 6>>>>, <<<<0, 3>>, <<4, 7>>>>,
       <<<<7, 6>>, <<5, 7>>>>, <<<<0, 6>>, <<2, 5>>>>, <<<<7, 5>>, <<6, 6>>>>, <<<<0, 5>>, <<3, 2>>>>,
       <<<<7, 1>>, <<5, 2>>>>, <<<<0, 1>>, <<2, 2>>>>, <<<<6, 3>>, <<5, 3>>>>, <<<<1, 3>>, <<2, 3>>>>,
       <<<<7, 2>>, <<3, 6>>>>, <<<<0, 2>>, <<2, 4>>>>, <<<<7, 3>>, <<6, 3>>>>, <<<<0, 4>>, <<0, 2>>>>,
       <<<<7, 4>>, <<7, 2>>>>, <<<<1, 7>>, <<3, 7>>>>, <<<<6, 0>>, <<4, 0>>>>, <<<<3, 7>>, <<4, 6>>>>,
       <<<<4, 0>>, <<3, 0>>>>, <<<<4, 6>>, <<5, 5>>>>, <<<<3, 0>>, <<2, 0>>>>, <<<<5, 5>>, <<6, 4>>>>,
       <<<<2, 0>>, <<1, 1>>>>, <<<<6, 4>>, <<7, 4>>>>, <<<<1, 1>>, <<0, 2>>>>, <<<<7, 4>>, <<7, 3>>>>,
       <<<<0, 2>>, <<0, 3>>>>, <<<<7, 3>>, <<7, 2>>>>,
       <<<<0, 3>>, <<0, 0>>>>, <<<<2, 2>>, <<4, 3>>>>, <<<<6, 6>>, <<7, 5>>>>, <<<<4, 7>>, <<4, 6>>>>,
       <<<<7, 7>>, <<7, 6>>>> >>

\* The coordinates a caller of move_piece may pass.
Coord == (0 - Off) .. (7 + Off)

Coords == Coord \X Coord

\* The pixels of a mouse click inside the window: the first pixel of each square
\* across, the last pixel of each square down.
ClickX == {k * square_size : k \in Rows}

ClickY == {k * square_size + (square_size - 1) : k \in Rows}

(***************************************************************************)
(* The state machine.                                                      *)
(***************************************************************************)
Init ==
    /\ board = initialize_board
    /\ current_turn = WHITE
    /\ selected_piece = NoSquare
    /\ game_over = FALSE
    /\ message = ""
    /\ exit = "init"
    /\ pre = [board |-> initialize_board, current_turn |-> WHITE]
    /\ args = NoCall
    /\ movers = <<>>
    /\ pos = 0
    /\ free = 0

\* An exception is not caught anywhere: the program is over.
Raised ==
    {"IndexError", NoAttribute("has_moved"), NoAttribute("is_checkmate"),
     NoAttribute("is_stalemate"), NoAttribute("get_all_valid_moves")}

Halted == exit \in Raised

\* How handle_click returns.
ClickExits == {"L314", "L322", "L325", "L329"}

\* The effect of self.board.move_piece(from_pos, to_pos) on the board and the history.
\* The squares of a call that returns False are recorded for a replayed call only.
CallMovePiece(from_pos, to_pos, record) ==
    LET r == move_piece(board, current_turn, from_pos, to_pos)
    IN  /\ board' = r.board
        /\ current_turn' = r.current_turn
        /\ pre' = [board |-> board, current_turn |-> current_turn]
        /\ args' = IF r.exit \in {"L85", "L87", "L89"} /\ ~record THEN NoCall
                   ELSE [from |-> from_pos, to |-> to_pos]
        /\ movers' = IF r.exit = "L111"
                     THEN Append(movers, board[from_pos].color) ELSE movers

\* board.move_piece with the next move of the recorded game.
Replay ==
    /\ ~Halted
    /\ free = 0
    /\ exit \notin ClickExits
    /\ pos < Len(Game)
    /\ CallMovePiece(Game[pos + 1][1], Game[pos + 1][2], TRUE)
    /\ exit' = move_piece(board, current_turn, Game[pos + 1][1], Game[pos + 1][2]).exit
    /\ pos' = pos + 1
    /\ UNCHANGED <<selected_piece, game_over, message, free>>

\* board.move_piece with any squares, on or off the grid.
MovePiece(from_pos, to_pos) ==
    /\ ~Halted
    /\ free < MaxFree
    /\ CallMovePiece(from_pos, to_pos, FALSE)
    /\ exit' = move_piece(board, current_turn, from_pos, to_pos).exit
    /\ free' = free + 1
    /\ UNCHANGED <<selected_piece, game_over, message, pos>>

\* handle_click (lines 311-329) for a click on pixel (px, py). After an accepted
\* move check_game_state is called, and computer_move when that returns with the
\* game not over.
HandleClick(px, py) ==
    LET col == px \div square_size
        row == py \div square_size
        piece == get_piece(board, row, col)
        r == move_piece(board, current_turn, selected_piece, <<row, col>>)
        own == piece # None /\ piece.color = current_turn
    IN  /\ ~Halted
        /\ pos' = pos
        /\ free' = free
        /\ message' = message
        /\ game_over' = game_over
        /\ IF game_over
           THEN /\ exit' = "L314"
                /\ UNCHANGED <<board, current_turn, selected_piece, pre, args, movers>>
           ELSE IF selected_piece # NoSquare
           THEN /\ CallMovePiece(selected_piece, <<row, col>>, FALSE)
                /\ IF r.exit = "L111"
                   THEN /\ selected_piece' = NoSquare
                        /\ exit' = IF check_game_state_exit # "L347"
                                   THEN check_game_state_exit
                                   ELSE IF computer_move_exit # "L337"
                                   THEN computer_move_exit ELSE "L322"
                   ELSE IF r.exit \in {"L85", "L87", "L89"}
                   THEN /\ selected_piece' = IF own THEN <<row, col>> ELSE NoSquare
                        /\ exit' = "L325"
                   ELSE /\ selected_piece' = selected_piece
                        /\ exit' = r.exit
           ELSE /\ selected_piece' = IF own THEN <<row, col>> ELSE selected_piece
                /\ exit' = "L329"
                /\ UNCHANGED <<board, current_turn, pre, args, movers>>

\* game.computer_move() (lines 331-337).
ComputerMove ==
    /\ ~Halted
    /\ exit' = computer_move_exit
    /\ pre' = [board |-> board, current_turn |-> current_turn]
    /\ UNCHANGED <<board, current_turn, selected_piece, game_over, message, args, movers, pos, free>>

\* game.check_game_state() (lines 339-347).
CheckGameState ==
    /\ ~Halted
    /\ exit' = check_game_state_exit
    /\ pre' = [board |-> board, current_turn |-> current_turn]
    /\ UNCHANGED <<board, current_turn, selected_piece, game_over, message, args, movers, pos, free>>

\* How is_valid_move ends.
QueryExits == {"True", "False", "loops"}

\* board.is_valid_move(from_pos, to_pos), as draw_board calls it for every square
\* of the grid (line 280) and as any caller may.
IsValidMove(from_pos, to_pos) ==
    /\ ~Halted
    /\ exit # "loops"
    /\ free < MaxFree
    /\ board' = is_valid_move_effect(board, from_pos, to_pos)
    /\ current_turn' = current_turn
    /\ exit' = is_valid_move_result(board, from_pos, to_pos)
    /\ pre' = [board |-> board, current_turn |-> current_turn]
    /\ args' = [from |-> from_pos, to |-> to_pos]
    /\ free' = free + 1
    /\ UNCHANGED <<selected_piece, game_over, message, movers, pos>>

Next ==
    \/ Replay
    \/ /\ free < MaxFree
       /\ \E from_pos \in Coords, to_pos \in Coords : MovePiece(from_pos, to_pos)

Spec == Init /\ [][Next]_vars

\* The same board driven through a ChessGame: mouse clicks and the game's methods.
GameNext ==
    \/ Replay
    \/ \E px \in ClickX, py \in ClickY : HandleClick(px, py)
    \/ ComputerMove
    \/ CheckGameState

GameSpec == Init /\ [][GameNext]_vars

\* The same board queried: is_valid_move for any squares, on or off the grid.
QueryNext ==
    \/ Replay
    \/ /\ free < MaxFree
       /\ \E from_pos \in Coords, to_pos \in Coords : IsValidMove(from_pos, to_pos)

QuerySpec == Init /\ [][QueryNext]_vars

(***************************************************************************)
(* Definitions the properties below are stated with.                       *)
(***************************************************************************)
\* The lines at which move_piece returns False.
Rejects == {"L85", "L87", "L89"}

Other(side) == IF side = WHITE THEN BLACK ELSE WHITE

\* The squares of b that hold a piece of side, and those that hold its king.
PiecesOf(b, side) == {s \in Sq : b[s].color = side}

KingsOf(b, side) == {s \in Sq : b[s].color = side /\ b[s].piece_type = KING}

\* sq is a square of the grid with nothing on it; with a piece of the side other
\* than side on it; with a piece of side on it.
Empty(b, sq) == sq \in Sq /\ b[sq] = None

Opposing(b, sq, side) == sq \in Sq /\ b[sq] # None /\ b[sq].color # side

SameSide(b, sq, side) == sq \in Sq /\ b[sq].color = side

\* The row a pawn of side moves toward, and the rank its pawns start on.
Forward(side) == IF side = WHITE THEN -1 ELSE 1

StartRank(side) == IF side = WHITE THEN 6 ELSE 1

Sign(x) == IF x < 0 THEN -1 ELSE IF x > 0 THEN 1 ELSE 0

\* a and b lie on one row or column; on one diagonal, apart.
OnLine(a, b) == a[1] = b[1] \/ a[2] = b[2]

OnDiagonal(a, b) == Abs(b[1] - a[1]) = Abs(b[2] - a[2]) /\ a # b

\* The squares strictly between a and b on the row, column or diagonal they share.
Between(a, b) ==
    LET dr == b[1] - a[1]
        dc == b[2] - a[2]
    IN  {<<a[1] + k * Sign(dr), a[2] + k * Sign(dc)>> : k \in 1 .. (Max(Abs(dr), Abs(dc)) - 1)}

Sliders == {ROOK, BISHOP, QUEEN}

\* The cell of the grid that self.board[row][col] names for the indices of sq.
Cell(sq) == <<Index(sq[1]), Index(sq[2])>>

\* The squares whose cell differs between two grids.
Changed(b1, b2) == {s \in Sq : b1[s] # b2[s]}

\* piece after an accepted move that took it to row to_row.
Moved(piece, to_row) ==
    [piece_type |-> IF piece.piece_type = PAWN /\ to_row \in {0, 7} THEN QUEEN
                    ELSE piece.piece_type,
     color |-> piece.color,
     has_moved |-> TRUE]

OffGrid(call) == call # NoCall /\ (call.from \notin Sq \/ call.to \notin Sq)

(***************************************************************************)
(* The terminal-state queries as section 4.4 of the specification defines  *)
(* them. ChessBoard has no method for any of them; they are what the calls *)
(* of lines 333, 341 and 345 are measured against.                         *)
(***************************************************************************)
\* isInCheck(side): a piece of the other side has a legal move onto side's king.
isInCheck(b, side) ==
    \E k \in KingsOf(b, side), s \in PiecesOf(b, Other(side)) : is_valid_move(b, s, k)

\* One move of allLegalMoves(side): a piece of side, a pair that passes the
\* legality rules, and side's king not in check once the move is applied.
LegalMove(b, side, from_pos, to_pos) ==
    /\ b[from_pos].color = side
    /\ is_valid_move(b, from_pos, to_pos)
    /\ ~isInCheck(move_piece(b, side, from_pos, to_pos).board, side)

allLegalMoves(b, side) ==
    {m \in Sq \X Sq : LegalMove(b, side, m[1], m[2])}

NoLegalMove(b, side) ==
    \A from_pos \in PiecesOf(b, side), to_pos \in Sq : ~LegalMove(b, side, from_pos, to_pos)

isCheckmate(b, side) == isInCheck(b, side) /\ NoLegalMove(b, side)

isStalemate(b, side) == ~isInCheck(b, side) /\ NoLegalMove(b, side)

\* The last call was computer_move, or ran check_game_state.
ComputerMoveRan == exit \in {"L337", NoAttribute("get_all_valid_moves")}

CheckGameStateRan ==
    exit \in {"L347", "L322", NoAttribute("is_checkmate"), NoAttribute("is_stalemate")}

\* What check_game_state reports (lines 342-347).
CheckmateReported ==
    /\ exit \notin Raised
    /\ game_over
    /\ message \in {"White wins by checkmate!", "Black wins by checkmate!"}

StalemateReported ==
    /\ exit \notin Raised
    /\ game_over
    /\ message = "Stalemate! It's a draw."

(***************************************************************************)
(* The properties.                                                         *)
(***************************************************************************)
\* C1: rejection is atomic. In every reachable state, for all squares from, to of
\* the grid: if from is empty, or holds a piece of the side not to move, or
\* is_valid_move(from, to) is false, then move_piece(from, to) returns False and
\* leaves every cell and current_turn as they were; and a call that has just
\* returned False has changed nothing.
RejectionIsAtomic ==
    /\ \A from_pos \in Sq, to_pos \in Sq :
          (\/ board[from_pos] = None
           \/ board[from_pos].color # current_turn
           \/ ~is_valid_move(board, from_pos, to_pos))
          => LET r == move_piece(board, current_turn, from_pos, to_pos)
             IN  r.exit \in Rejects /\ r.board = board /\ r.current_turn = current_turn
    /\ exit \in Rejects => board = pre.board /\ current_turn = pre.current_turn

\* A rook moved diagonally has just been refused, and nothing has changed.
RookDiagonalRefused ==
    /\ exit = "L89"
    /\ args = [from |-> <<7, 0>>, to |-> <<5, 2>>]
    /\ board[<<7, 0>>].piece_type = ROOK
    /\ board = pre.board
    /\ current_turn = pre.current_turn

\* C2: a call with a row or column outside 0..7 is a no-op. For the last recorded
\* call, if one of its squares is off the grid then is_valid_move was false for it,
\* move_piece returned False without an exception, and no cell and not the turn
\* has changed.
OutOfRangeIsNoOp ==
    OffGrid(args) =>
        /\ ~is_valid_move(pre.board, args.from, args.to)
        /\ exit \in Rejects
        /\ board = pre.board
        /\ current_turn = pre.current_turn

\* C3: the legality query respects the turn. For all squares from, to of the grid,
\* is_valid_move(from, to) is false when from is empty or holds a piece of the
\* side that is not current_turn.
LegalityRespectsTurn ==
    \A from_pos \in Sq, to_pos \in Sq :
        (board[from_pos] = None \/ board[from_pos].color # current_turn)
        => ~is_valid_move(board, from_pos, to_pos)

\* C4: turns strictly alternate. current_turn is White at the start; an accepted
\* move moves a piece of the side to move and hands the turn to the other side; a
\* refused call leaves the turn; so the pieces moved by the accepted moves are
\* White, Black, White, ... in order.
TurnsAlternate ==
    /\ current_turn = IF Len(movers) % 2 = 0 THEN WHITE ELSE BLACK
    /\ \A i \in 1 .. Len(movers) : movers[i] = IF i % 2 = 1 THEN WHITE ELSE BLACK
    /\ exit = "L111" => /\ movers[Len(movers)] = pre.current_turn
                        /\ current_turn = Other(pre.current_turn)
    /\ exit \in Rejects => current_turn = pre.current_turn

\* Three moves have been accepted, with refused calls before them.
ThreeMovesAlternated ==
    /\ exit = "L111"
    /\ movers = <<WHITE, BLACK, WHITE>>
    /\ pos = 6
    /\ current_turn = BLACK

\* C5: no own-piece capture. An accepted move leaves the number of pieces of the
\* side that moved as it was, and the number of pieces of the other side as it was
\* or one less.
NoOwnPieceCapture ==
    exit = "L111" =>
        LET side == pre.current_turn
        IN  /\ Cardinality(PiecesOf(board, side)) = Cardinality(PiecesOf(pre.board, side))
            /\ Cardinality(PiecesOf(pre.board, Other(side)))
                   - Cardinality(PiecesOf(board, Other(side))) \in {0, 1}

\* C6: castling execution. For the side to move and either wing: with its king
\* unmoved on column 4 of a row, an unmoved rook on the corner of that wing and
\* the squares between them empty, move_piece(king, king two columns toward the
\* rook) returns True; then the king is on column 6 (2), the rook on column 5 (3)
\* of that row, the king's origin and the corner are empty, both pieces have
\* has_moved true and the turn has passed to the other side.
CastlingExecutes ==
    \A row \in Rows, rook_col \in {0, 7} :
        LET king == board[<<row, 4>>]
            rook == board[<<row, rook_col>>]
            king_to == IF rook_col = 7 THEN 6 ELSE 2
            rook_to == IF rook_col = 7 THEN 5 ELSE 3
            r == move_piece(board, current_turn, <<row, 4>>, <<row, king_to>>)
        IN  (/\ king.piece_type = KING /\ king.color = current_turn /\ ~king.has_moved
             /\ rook.piece_type = ROOK /\ ~rook.has_moved
             /\ \A c \in (Min(4, rook_col) + 1) .. (Max(4, rook_col) - 1) :
                   board[<<row, c>>] = None)
            => /\ r.exit = "L111"
               /\ r.board[<<row, king_to>>] = [king EXCEPT !.has_moved = TRUE]
               /\ r.board[<<row, rook_to>>] = [rook EXCEPT !.has_moved = TRUE]
               /\ r.board[<<row, 4>>] = None
               /\ r.board[<<row, rook_col>>] = None
               /\ r.current_turn = Other(current_turn)

\* White has just castled on the king's side.
WhiteCastledKingside ==
    /\ exit = "L111"
    /\ args = [from |-> <<7, 4>>, to |-> <<7, 6>>]
    /\ pre.board[<<7, 4>>] = Piece(KING, WHITE)
    /\ pre.board[<<7, 7>>] = Piece(ROOK, WHITE)
    /\ board[<<7, 6>>] = [piece_type |-> KING, color |-> WHITE, has_moved |-> TRUE]
    /\ board[<<7, 5>>] = [piece_type |-> ROOK, color |-> WHITE, has_moved |-> TRUE]
    /\ board[<<7, 4>>] = None
    /\ board[<<7, 7>>] = None
    /\ current_turn = BLACK

\* C7: promotion. No pawn stands on row 0 or row 7; and a pawn whose accepted move
\* lands on its farthest rank (row 0 for White, row 7 for Black) is, in the state
\* that move leaves, a queen of the same side with has_moved true.
PromotionInvariant ==
    /\ \A s \in Sq : board[s].piece_type = PAWN => s[1] \notin {0, 7}
    /\ (/\ exit = "L111"
        /\ get_piece(pre.board, args.from[1], args.from[2]).piece_type = PAWN
        /\ args.to[1] = IF pre.current_turn = WHITE THEN 0 ELSE 7)
       => get_piece(board, args.to[1], args.to[2])
             = [piece_type |-> QUEEN, color |-> pre.current_turn, has_moved |-> TRUE]

\* A black pawn has just moved to row 7 and stands there as a queen.
BlackPawnPromoted ==
    /\ exit = "L111"
    /\ args.from \in Sq /\ args.to \in Sq
    /\ pre.board[args.from] = [piece_type |-> PAWN, color |-> BLACK, has_moved |-> TRUE]
    /\ args.to[1] = 7
    /\ board[args.to] = [piece_type |-> QUEEN, color |-> BLACK, has_moved |-> TRUE]

\* C8: the automated mover's enumeration. When computer_move has run, the
\* enumeration get_all_valid_moves(computer_player) was obtained, and a move the
\* computer played is one of its moves: it does not leave the computer's own king
\* attacked by an opposing piece.
ComputerMovesSafely ==
    ComputerMoveRan =>
        /\ exit \notin Raised
        /\ board # pre.board =>
               /\ ~isInCheck(board, computer_player)
               /\ \E m \in allLegalMoves(pre.board, computer_player) :
                      board = move_piece(pre.board, pre.current_turn, m[1], m[2]).board

\* C9: checkmate detection. When the game state has been checked for the side to
\* move, checkmate is reported iff that side's king is attacked and the side has
\* no legal move, stalemate iff the king is not attacked and the side has no legal
\* move, and never both.
CheckmateDetection ==
    CheckGameStateRan =>
        /\ CheckmateReported <=> isCheckmate(board, current_turn)
        /\ StalemateReported <=> isStalemate(board, current_turn)
        /\ ~(CheckmateReported /\ StalemateReported)

\* C10: king count. Each side has at most one king on the board, whatever calls
\* were made.
AtMostOneKing ==
    \A side \in PieceColor : Cardinality(KingsOf(board, side)) <= 1

\* Both sides have castled, a pawn has just been promoted and each side still has
\* exactly one king.
OneKingEachAfterPromotion ==
    /\ exit = "L111"
    /\ args.from \in Sq /\ args.to \in Sq
    /\ pre.board[args.from].piece_type = PAWN
    /\ board[args.to].piece_type = QUEEN
    /\ KingsOf(board, WHITE) = {<<7, 2>>}
    /\ KingsOf(board, BLACK) = {<<0, 2>>}

\* C11: is_valid_move is pure. Whatever squares it is called with and whatever it
\* answers, a call of is_valid_move leaves every cell of the grid (the occupant
\* and its piece_type, color and has_moved) and current_turn as they were.
IsValidMoveIsPure ==
    [][exit' \in QueryExits => board' = board /\ current_turn' = current_turn]_vars

\* is_valid_move has just answered True for White's castling on the king's side,
\* and king and rook are where they were, unmoved.
CastlingQueriedOnly ==
    /\ exit = "True"
    /\ args = [from |-> <<7, 4>>, to |-> <<7, 6>>]
    /\ board = pre.board
    /\ board[<<7, 4>>] = Piece(KING, WHITE)
    /\ board[<<7, 7>>] = Piece(ROOK, WHITE)

\* C12: the pawn rule. For a pawn on from (forward is -1 for White, +1 for Black)
\* and any to, is_valid_move(from, to) is true iff (a) to is one step forward in
\* the same column and empty, or (b) to is two steps forward in the same column,
\* the pawn is on its starting rank and the square passed over and to are empty,
\* or (c) to is one step forward, one column aside, and holds an opposing piece.
\* So a pawn never moves diagonally onto an empty square, backward or sideways.
PawnRule ==
    \A from_pos \in Sq :
        board[from_pos].piece_type = PAWN =>
            LET side == board[from_pos].color
                fr == from_pos[1]
                fc == from_pos[2]
                d == Forward(side)
            IN  \A to_pos \in Coords :
                    /\ is_valid_move(board, from_pos, to_pos) <=>
                          \/ to_pos = <<fr + d, fc>> /\ Empty(board, to_pos)
                          \/ /\ to_pos = <<fr + 2 * d, fc>>
                             /\ fr = StartRank(side)
                             /\ Empty(board, <<fr + d, fc>>)
                             /\ Empty(board, to_pos)
                          \/ /\ to_pos[1] = fr + d
                             /\ Abs(to_pos[2] - fc) = 1
                             /\ Opposing(board, to_pos, side)
                    /\ is_valid_move(board, from_pos, to_pos) =>
                          /\ (to_pos[1] - fr) * d > 0
                          /\ to_pos[2] # fc => Opposing(board, to_pos, side)

\* After 10.a4: the black pawn on (3,7) may capture on (4,6) but not step onto
\* its own queen on (4,7); the white pawn on (6,7) may not pass over the knight on
\* (5,7); the white pawn on (6,1) may advance two squares; the white pawn on
\* (4,0) may not move diagonally onto the empty (3,1).
PawnCasesAfterA4 ==
    /\ pos = 22 /\ free = 0 /\ exit = "L111"
    /\ board[<<3, 7>>].piece_type = PAWN /\ board[<<4, 6>>].piece_type = PAWN
    /\ is_valid_move(board, <<3, 7>>, <<4, 6>>)
    /\ ~is_valid_move(board, <<3, 7>>, <<4, 7>>)
    /\ board[<<5, 7>>].piece_type = KNIGHT /\ board[<<4, 7>>].piece_type = QUEEN
    /\ ~is_valid_move(board, <<6, 7>>, <<4, 7>>)
    /\ ~is_valid_move(board, <<6, 7>>, <<5, 7>>)
    /\ is_valid_move(board, <<6, 1>>, <<4, 1>>)
    /\ board[<<4, 0>>].piece_type = PAWN /\ board[<<3, 1>>] = None
    /\ ~is_valid_move(board, <<4, 0>>, <<3, 1>>)

\* C13: sliding pieces never jump. For a rook, bishop or queen on from and any
\* square to, is_valid_move(from, to) is true iff to does not hold a piece of the
\* same side, from and to share a row or column (rook, queen) or a diagonal with
\* |drow| = |dcol| > 0 (bishop, queen), and every square strictly between them on
\* that line is empty; and an accepted move of such a piece has passed over empty
\* squares only.
SlidersNeverJump ==
    /\ \A from_pos \in Sq :
          board[from_pos].piece_type \in Sliders =>
              LET kind == board[from_pos].piece_type
                  side == board[from_pos].color
              IN  \A to_pos \in Sq :
                      is_valid_move(board, from_pos, to_pos) <=>
                          /\ ~SameSide(board, to_pos, side)
                          /\ \/ kind \in {ROOK, QUEEN} /\ OnLine(from_pos, to_pos)
                             \/ kind \in {BISHOP, QUEEN} /\ OnDiagonal(from_pos, to_pos)
                          /\ \A s \in Between(from_pos, to_pos) : Empty(board, s)
    /\ (/\ exit = "L111" /\ args.from \in Sq /\ args.to \in Sq
        /\ pre.board[args.from].piece_type \in Sliders)
       => \A s \in Between(args.from, args.to) : pre.board[s] = None

\* Black's queen has just gone from (0,3) to (4,7) over three empty squares; in
\* that position the rook on (7,0) may not pass over the pawn on (6,0), the bishop
\* on (7,2) may not pass over the pawn on (6,3), and the bishop on (7,5) may go to
\* (5,7).
QueenSlidToH4 ==
    /\ exit = "L111"
    /\ args = [from |-> <<0, 3>>, to |-> <<4, 7>>]
    /\ board[<<4, 7>>] = [piece_type |-> QUEEN, color |-> BLACK, has_moved |-> TRUE]
    /\ Between(args.from, args.to) = {<<1, 4>>, <<2, 5>>, <<3, 6>>}
    /\ \A s \in Between(args.from, args.to) : pre.board[s] = None
    /\ board[<<6, 0>>] # None /\ ~is_valid_move(board, <<7, 0>>, <<5, 0>>)
    /\ board[<<6, 3>>] # None /\ ~is_valid_move(board, <<7, 2>>, <<5, 4>>)
    /\ is_valid_move(board, <<7, 5>>, <<5, 7>>)

\* C14: castling legality. For a king on from and any square to: with |dcol| = 2,
\* is_valid_move(from, to) is true only if to is on the king's row, the king has
\* has_moved false, the corner of that wing (column 0 toward lower columns, column
\* 7 otherwise) holds a rook with has_moved false, and every square strictly
\* between king and corner is empty; with any other |dcol| it is true iff
\* |drow| <= 1, |dcol| <= 1 and to does not hold a piece of the king's side. The
\* king of the side to move is moved by move_piece exactly when is_valid_move is
\* true. Nothing in this depends on the wing or the side.
CastlingLegality ==
    \A from_pos \in Sq :
        board[from_pos].piece_type = KING =>
            LET king == board[from_pos]
                fr == from_pos[1]
                fc == from_pos[2]
            IN  \A to_pos \in Sq :
                    LET drow == Abs(to_pos[1] - fr)
                        dcol == Abs(to_pos[2] - fc)
                        corner == <<fr, IF to_pos[2] < fc THEN 0 ELSE 7>>
                        valid == is_valid_move(board, from_pos, to_pos)
                    IN  /\ dcol = 2 /\ valid =>
                              /\ drow = 0
                              /\ ~king.has_moved
                              /\ board[corner].piece_type = ROOK
                              /\ ~board[corner].has_moved
                              /\ \A s \in Between(from_pos, corner) : Empty(board, s)
                        /\ dcol # 2 =>
                              (valid <=> /\ drow <= 1 /\ dcol <= 1
                                         /\ ~SameSide(board, to_pos, king.color))
                        /\ king.color = current_turn =>
                              (valid <=> move_piece(board, current_turn, from_pos, to_pos).exit
                                            = "L111")

\* After 7...Be6, White to move: the white king may castle toward column 7 (the
\* squares between are empty) but not toward column 0 (the queen stands on
\* (7,3)); it may step to the empty (7,5) but not onto its own pawn on (6,4);
\* the black king has both wings open.
CastlingOpenOnOneWing ==
    /\ pos = 17 /\ free = 0 /\ exit = "L111" /\ current_turn = WHITE
    /\ board[<<7, 4>>] = Piece(KING, WHITE)
    /\ board[<<7, 0>>] = Piece(ROOK, WHITE) /\ board[<<7, 7>>] = Piece(ROOK, WHITE)
    /\ board[<<7, 3>>].piece_type = QUEEN
    /\ ~is_valid_move(board, <<7, 4>>, <<7, 2>>)
    /\ is_valid_move(board, <<7, 4>>, <<7, 6>>)
    /\ is_valid_move(board, <<7, 4>>, <<7, 5>>)
    /\ ~is_valid_move(board, <<7, 4>>, <<6, 4>>)
    /\ board[<<0, 4>>] = Piece(KING, BLACK)
    /\ is_valid_move(board, <<0, 4>>, <<0, 2>>)
    /\ is_valid_move(board, <<0, 4>>, <<0, 6>>)

\* C15: has_moved is monotonic. Every piece starts with has_moved false; an
\* accepted move leaves the moved piece (and, in a castling move, the rook beside
\* the king) with has_moved true, promoted or not; and no operation leaves on any
\* square a piece with has_moved false other than the piece that stood there with
\* has_moved false before: once true, the flag is never false again.
HasMovedMonotonic ==
    /\ \A s \in Sq : ~board[s].has_moved
    /\ [][/\ \A s \in Sq : (board'[s] # None /\ ~board'[s].has_moved) => board'[s] = board[s]
          /\ exit' = "L111" =>
                LET from_pos == args'.from
                    to_pos == args'.to
                    piece == board[from_pos]
                IN  /\ board'[Cell(to_pos)].has_moved
                    /\ board'[Cell(to_pos)].color = piece.color
                    /\ (piece.piece_type = KING /\ Abs(to_pos[2] - from_pos[2]) = 2) =>
                           \A s \in Between(from_pos, to_pos) :
                               board'[s] = [piece_type |-> ROOK, color |-> piece.color,
                                            has_moved |-> TRUE]]_vars

\* White has just castled toward column 0: king and rook have has_moved true,
\* the rook on the other corner and the pawns that stayed still have it false,
\* and the pieces that moved earlier still have it true.
WhiteCastledQueenside ==
    /\ exit = "L111"
    /\ args = [from |-> <<7, 4>>, to |-> <<7, 2>>]
    /\ pre.board[<<7, 4>>] = Piece(KING, WHITE)
    /\ pre.board[<<7, 0>>] = Piece(ROOK, WHITE)
    /\ board[<<7, 2>>] = [piece_type |-> KING, color |-> WHITE, has_moved |-> TRUE]
    /\ board[<<7, 3>>] = [piece_type |-> ROOK, color |-> WHITE, has_moved |-> TRUE]
    /\ board[<<7, 7>>] = Piece(ROOK, WHITE)
    /\ board[<<6, 0>>] = Piece(PAWN, WHITE)
    /\ board[<<5, 7>>] = [piece_type |-> KNIGHT, color |-> WHITE, has_moved |-> TRUE]

\* C16: the initial state. A freshly constructed ChessBoard has on row 0 the black
\* and on row 7 the white back rank in the order rook, knight, bishop, queen, king,
\* bishop, knight, rook, black pawns on all of row 1, white pawns on all of row 6,
\* rows 2..5 empty, has_moved false on every piece, and White to move.
InitialSetup ==
    exit = "init" =>
        /\ \A col \in Rows :
              LET kind == CASE col \in {0, 7} -> ROOK
                            [] col \in {1, 6} -> KNIGHT
                            [] col \in {2, 5} -> BISHOP
                            [] col = 3 -> QUEEN
                            [] col = 4 -> KING
              IN  /\ board[<<0, col>>] = [piece_type |-> kind, color |-> BLACK, has_moved |-> FALSE]
                  /\ board[<<7, col>>] = [piece_type |-> kind, color |-> WHITE, has_moved |-> FALSE]
                  /\ board[<<1, col>>] = [piece_type |-> PAWN, color |-> BLACK, has_moved |-> FALSE]
                  /\ board[<<6, col>>] = [piece_type |-> PAWN, color |-> WHITE, has_moved |-> FALSE]
                  /\ \A row \in 2 .. 5 : board[<<row, col>>] = None
        /\ DOMAIN board = Sq
        /\ current_turn = WHITE

\* The board as the constructor leaves it, before any call: 32 pieces, the kings
\* on column 4 and the queens on column 3.
FreshBoard ==
    /\ exit = "init" /\ pos = 0 /\ free = 0 /\ movers = <<>>
    /\ Cardinality({s \in Sq : board[s] # None}) = 32
    /\ KingsOf(board, BLACK) = {<<0, 4>>} /\ KingsOf(board, WHITE) = {<<7, 4>>}
    /\ board[<<0, 3>>].piece_type = QUEEN /\ board[<<7, 3>>].piece_type = QUEEN
    /\ current_turn = WHITE

\* C17: the pawn double-step is gated by has_moved. In every reachable state a
\* pawn stands on the starting rank of its side (row 6 for White, row 1 for Black)
\* iff its has_moved is false; so is_valid_move accepts a two-row advance only for
\* a pawn that has never moved.
PawnRankIffUnmoved ==
    \A s \in Sq :
        board[s].piece_type = PAWN =>
            /\ s[1] = StartRank(board[s].color) <=> ~board[s].has_moved
            /\ \A to_pos \in Sq :
                   (Abs(to_pos[1] - s[1]) = 2 /\ is_valid_move(board, s, to_pos))
                   => ~board[s].has_moved

\* After 1.f3 e5: the pawns on (5,5) and (3,4) have moved and may not advance two
\* rows; the pawn on (6,4) has not and may.
TwoPawnsHaveLeftTheirRank ==
    /\ pos = 5 /\ free = 0 /\ exit = "L111"
    /\ board[<<5, 5>>] = [piece_type |-> PAWN, color |-> WHITE, has_moved |-> TRUE]
    /\ board[<<3, 4>>] = [piece_type |-> PAWN, color |-> BLACK, has_moved |-> TRUE]
    /\ ~is_valid_move(board, <<5, 5>>, <<3, 5>>)
    /\ ~is_valid_move(board, <<3, 4>>, <<5, 4>>)
    /\ board[<<6, 4>>] = Piece(PAWN, WHITE)
    /\ is_valid_move(board, <<6, 4>>, <<4, 4>>)

\* C18: the frame of an accepted move. An accepted move that is not a castling
\* move changes exactly the from square, which becomes empty, and the to square,
\* which becomes the moved piece, and leaves every other square as it was; an
\* accepted castling move changes exactly four squares of the king's row (where
\* the king was, where it is, the rook's corner, the square the rook is on now)
\* and nothing else.
MoveFrame ==
    exit = "L111" =>
        LET from_pos == args.from
            to_pos == args.to
            piece == pre.board[from_pos]
            row == from_pos[1]
            corner == <<row, IF to_pos[2] < from_pos[2] THEN 0 ELSE 7>>
        IN  IF piece.piece_type = KING /\ Abs(to_pos[2] - from_pos[2]) = 2
            THEN /\ Changed(pre.board, board) = {from_pos, to_pos, corner} \cup Between(from_pos, to_pos)
                 /\ Cardinality(Changed(pre.board, board)) = 4
                 /\ \A s \in Changed(pre.board, board) : s[1] = row
                 /\ board[from_pos] = None /\ board[corner] = None
                 /\ board[to_pos] = Moved(piece, row)
                 /\ \A s \in Between(from_pos, to_pos) : board[s] = Moved(pre.board[corner], row)
            ELSE /\ Changed(pre.board, board) = {from_pos, to_pos}
                 /\ board[from_pos] = None
                 /\ board[to_pos] = Moved(piece, to_pos[1])

\* C19: castling only ever uses the king's own rook. In every reachable state a
\* piece with has_moved false stands on the square it started on; so, although
\* no line compares the colours, whenever is_valid_move is true for a king move
\* of two columns the rook on that corner is of the king's side, and the rook an
\* accepted castling move has relocated is of the side of the king it stands
\* beside.
CastlingUsesOwnRook ==
    /\ \A s \in Sq : (board[s] # None /\ ~board[s].has_moved) => board[s] = initialize_board[s]
    /\ \A from_pos \in Sq, to_pos \in Sq :
          (/\ board[from_pos].piece_type = KING
           /\ Abs(to_pos[2] - from_pos[2]) = 2
           /\ is_valid_move(board, from_pos, to_pos))
          => LET corner == <<from_pos[1], IF to_pos[2] < from_pos[2] THEN 0 ELSE 7>>
             IN  board[corner].piece_type = ROOK /\ board[corner].color = board[from_pos].color
    /\ (/\ exit = "L111"
        /\ pre.board[args.from].piece_type = KING
        /\ Abs(args.to[2] - args.from[2]) = 2)
       => \A s \in Between(args.from, args.to) :
              /\ board[s].piece_type = ROOK
              /\ board[s].color = board[args.to].color
              /\ board[s].color = pre.current_turn

\* Black has just castled toward column 0 with its own rook.
BlackCastledQueenside ==
    /\ exit = "L111"
    /\ args = [from |-> <<0, 4>>, to |-> <<0, 2>>]
    /\ pre.board[<<0, 4>>] = Piece(KING, BLACK)
    /\ pre.board[<<0, 0>>] = Piece(ROOK, BLACK)
    /\ board[<<0, 2>>] = [piece_type |-> KING, color |-> BLACK, has_moved |-> TRUE]
    /\ board[<<0, 3>>] = [piece_type |-> ROOK, color |-> BLACK, has_moved |-> TRUE]
    /\ board[<<0, 0>>] = None /\ board[<<0, 4>>] = None

\* C20: legality checking always terminates. Every call of is_valid_move returns
\* True or False; and for squares from, to of the grid, from = to included, the
\* diagonal walk of _validate_bishop is entered only with from # to, ends at the
\* destination or at an occupied square, and looks at no more than 7 squares.
ValidityCheckTerminates ==
    exit \in QueryExits =>
        /\ exit \in {"True", "False"}
        /\ (/\ args.from \in Sq /\ args.to \in Sq
            /\ enters_walk(pre.board, args.from, args.to))
           => LET w == walk_start(args.from, args.to)
              IN  /\ args.from # args.to
                  /\ bishop_walk(pre.board, w.r, w.c, args.to[1], args.to[2],
                                 w.row_step, w.col_step) \in {"hit", "blocked"}
                  /\ bishop_walk_len(pre.board, w.r, w.c, args.to[1], args.to[2],
                                     w.row_step, w.col_step) <= 7

\* is_valid_move has just answered True for the queen on (0,0) and the far corner
\* (7,7): the walk has looked at 7 squares. On the same board the walk is not
\* entered for the queen and its own square, which only line 120 prevents.
QueenAskedAcrossTheBoard ==
    /\ exit = "True"
    /\ args = [from |-> <<0, 0>>, to |-> <<7, 7>>]
    /\ board[<<0, 0>>].piece_type = QUEEN
    /\ enters_walk(board, <<0, 0>>, <<7, 7>>)
    /\ bishop_walk_len(board, 1, 1, 7, 7, 1, 1) = 7
    /\ bishop_walk(board, 1, 1, 7, 7, 1, 1) = "hit"
    /\ ~enters_walk(board, <<0, 0>>, <<0, 0>>)
    /\ enters_walk_same_side(board, <<0, 0>>, <<0, 0>>)
    /\ is_valid_move_result(board, <<0, 0>>, <<0, 0>>) = "False"

====
